---- MODULE Spec2Model ----
(***************************************************************************)
(* Model of the solarwinds_ansible collection.                             *)
(*                                                                         *)
(* Part I  : one run of the orion_node module (plugins/modules/            *)
(*           orion_node.py, main and class OrionNode) against the vendor   *)
(*           information service.  Every vendor call is one step whose     *)
(*           result (rows, status, or a raised error) is chosen by the     *)
(*           service.                                                      *)
(* Part II : one run of SolarWindsQuery.execute (plugins/module_utils/     *)
(*           solarwinds_query.py) with SQLQueryBuilder.                    *)
(***************************************************************************)
EXTENDS Integers, Sequences, FiniteSets, TLC

None == "None"

\* ---------------------------------------------------------------------------
\* Program constants of orion_node.py
AGENT_NODE_CREATION_CHECK_RETRIES == 10
DISCOVERY_STATUS_CHECK_RETRIES == 60
LIST_RESOURCES_STATUS_CHECK_RETRIES == 60
ORION_DISCOVERY_JOB_STATUS_UNKNOWN == 0
ORION_DISCOVERY_JOB_STATUS_FINISHED == 2
ORION_DISCOVERY_JOB_STATUS_ERROR == 3
ORION_DISCOVERY_JOB_STATUS_NOT_COMPLETED == 6
ORION_DISCOVERY_JOB_STATUS_CANCELING == 7
ORION_CONN_STATUS_CONNECTED == 1
POLLING_METHODS_USING_DISCOVERY == {"snmp", "wmi"}

\* ---------------------------------------------------------------------------
\* Bounds of the model
MaxCreds == 1
MaxCustomProps == 1
MaxEntries == 2
MaxFilters == 2
MaxCutoff == 1

\* ---------------------------------------------------------------------------
\* Input domains
StateChoices == {"present", "absent", "remanaged", "unmanaged", "muted", "unmuted"}
PollingMethodChoices == {"agent", "external", "icmp", "snmp", "wmi"}
AgentModeChoices == {"active", "passive"}
DiscoveryStatuses == 0..8
ListResourcesStatuses == {"Unknown", "InProgress", "ReadyForImport"}
EngineIds == {1, 2}

\* The options main() reads before it dispatches on state.  A BOOLEAN field
\* says whether the option was supplied (is not None).
ParamSpace ==
  [ state          : StateChoices,
    check_mode     : BOOLEAN,
    node_id        : BOOLEAN,
    ip_address     : BOOLEAN,
    node_name      : BOOLEAN,
    polling_method : PollingMethodChoices \cup {None},
    agent_mode     : AgentModeChoices \cup {None},
    agent_shared_secret : BOOLEAN,
    unmanage_from  : BOOLEAN,
    unmanage_until : BOOLEAN ]

\* Options the code never reads on a run are held at one value: the unmanage
\* window is read only for the four states of required_if and by
\* unmanage_node / mute_node; agent_shared_secret only when agent_mode is
\* passive; agent_mode, unless polling_method is agent, only to compare it
\* with "passive".
InputParams ==
  { p \in ParamSpace :
      /\ p.state \in {"present", "absent"} => (~p.unmanage_from /\ ~p.unmanage_until)
      /\ p.agent_mode # "passive" => ~p.agent_shared_secret
      /\ p.polling_method # "agent" => p.agent_mode # "active" }

VARIABLES
  params,      \* module.params / module.check_mode
  pc,          \* position of the run
  outcome,     \* "running" | "exit" | "fail" | "exception"
  msg,         \* message of exit_json / fail_json / the uncaught exception
  changed,     \* the changed flag reported by exit_json
  node,        \* result of OrionNode.node(): None or a record
  agent,       \* result of OrionNode.agent(): None or a record
  calls,       \* non-query vendor calls issued so far, in order
  props,       \* result of validate_fields and the add-path options
  loops,       \* counters of the polling loops
  filt,        \* state of filter_interfaces / filter_volumes
  qs,          \* SolarWindsQuery.execute: filters and base query (Part II)
  nest,        \* SolarWindsQuery.execute: supplementary queries and nesting
  meta         \* SolarWindsQuery: the setters, properties() and relations()

vars == <<params, pc, outcome, msg, changed, node, agent, calls, props, loops, filt, qs, nest, meta>>

NoProps ==
  [ set |-> FALSE, DNS |-> FALSE, EngineID |-> 0, DiscoveryEngineID |-> 0,
    ncreds |-> 0, polling_engine_id |-> 0,
    discovery_polling_engine_name |-> None, discovery_polling_engine |-> 0 ]

NoLoops ==
  [ discovery_iter   |-> 0,   \* discover_node: discovery_iter
    status_queries   |-> 0,   \* discover_node: status queries issued
    job_retries_iter |-> 0,   \* list_resources_for_node: job_retries_iter
    sleeps           |-> 0,   \* list_resources_for_node: time.sleep calls
    status_calls     |-> 0,   \* GetScheduledListResourcesStatus calls
    ready_seen       |-> FALSE, \* a ReadyForImport status was returned
    node_status_iter |-> 0 ]  \* add_node_agent: node_status_iter

NoFilt ==
  [ if_matches  |-> -1,  \* len(interfaces_to_remove), -1 before it is known
    if_cutoff   |-> 0,   \* interface_filter_cutoff_max
    if_deleted  |-> 0,   \* interface delete calls issued
    vol_matches |-> -1,  \* len(volumes_to_remove)
    vol_cutoff  |-> 0,   \* volume_filter_cutoff_max
    vol_deleted |-> 0,   \* volume delete calls issued
    todo        |-> 0 ]  \* iterations left in the running for loop

NoQs == [ used |-> FALSE ]

NoNest == [ used |-> FALSE ]

NoMeta == [ used |-> FALSE ]

\* ---------------------------------------------------------------------------
\* Ends of a run

\* module.fail_json(msg=m): terminal failure reported to the host runtime
fail_json(m) ==
  /\ outcome' = "fail"
  /\ msg' = m
  /\ pc' = "done"
  /\ changed' = FALSE

\* module.exit_json(changed=c, msg=m)
exit_json(c, m) ==
  /\ outcome' = "exit"
  /\ msg' = m
  /\ pc' = "done"
  /\ changed' = c

\* An exception no handler catches: the interpreter ends with a traceback
Uncaught(m) ==
  /\ outcome' = "exception"
  /\ msg' = m
  /\ pc' = "done"
  /\ changed' = FALSE

Goto(l) ==
  /\ pc' = l
  /\ UNCHANGED <<outcome, msg, changed>>

\* ---------------------------------------------------------------------------
\* AnsibleModule(argument_spec, required_one_of, required_if, ...)

\* required_one_of=[["node_name", "ip_address"]]
RequiredOneOf(p) == p.node_name \/ p.ip_address

\* required_if on state: the listed options must all be supplied
RequiredIfState(p) ==
  /\ p.state = "muted"     => (p.unmanage_from /\ p.unmanage_until)
  /\ p.state = "remanaged" => p.unmanage_until
  /\ p.state = "unmanaged" => (p.unmanage_from /\ p.unmanage_until)
  /\ p.state = "unmuted"   => p.unmanage_until

\* required_if on polling_method and agent_mode (options with a default,
\* such as agent_port and credential_names, are always present)
RequiredIfAgent(p) ==
  /\ p.polling_method = "agent" => p.agent_mode # None
  /\ p.agent_mode = "passive"   => p.agent_shared_secret

ParseArgs ==
  /\ pc = "args"
  /\ IF ~RequiredOneOf(params)
       THEN fail_json("one of the following is required: node_name, ip_address")
       ELSE IF ~RequiredIfState(params)
         THEN fail_json("state requires unmanage_from/unmanage_until")
         ELSE IF ~RequiredIfAgent(params)
           THEN fail_json("polling_method/agent_mode requires further options")
           ELSE Goto("connect")
  /\ UNCHANGED <<params, node, agent, calls, props, loops, filt, qs, nest, meta>>

\* SolarWindsClient.__init__: probe query inside try/except
Connect ==
  /\ pc = "connect"
  /\ \E err \in BOOLEAN :
       IF err THEN fail_json("Failed to query Orion") ELSE Goto("node")
  /\ UNCHANGED <<params, node, agent, calls, props, loops, filt, qs, nest, meta>>

\* The rows a node query can return: none, or the first row
NoNode == [ found |-> FALSE, object_sub_type |-> None ]

NodeResults ==
  { NoNode } \cup [ found : {TRUE}, object_sub_type : {"AGENT", "SNMP"} ]

NoAgent == [ found |-> FALSE, connection_status |-> 0 ]

AgentResults ==
  { NoAgent } \cup
  [ found : {TRUE}, connection_status : {ORION_CONN_STATUS_CONNECTED, 2} ]

\* OrionNode.node(module), first call from main: the query is not guarded
LookupNode ==
  /\ pc = "node"
  /\ IF params.node_id \/ params.ip_address \/ params.node_name
       THEN \E err \in BOOLEAN :
              IF err
                THEN Uncaught("vendor error in node query") /\ UNCHANGED node
                ELSE \E r \in NodeResults : node' = r /\ Goto("agent")
       ELSE fail_json("You must provide either node_id, ip_address, or node_name")
            /\ UNCHANGED node
  /\ UNCHANGED <<params, agent, calls, props, loops, filt, qs, nest, meta>>

\* OrionNode.agent(module): looks up by ip_address, else node_name, else fails
LookupAgent ==
  /\ pc = "agent"
  /\ IF params.ip_address \/ params.node_name
       THEN \E err \in BOOLEAN :
              IF err
                THEN Uncaught("vendor error in agent query") /\ UNCHANGED agent
                ELSE \E r \in AgentResults : agent' = r /\ Goto("dispatch")
       ELSE fail_json("You must provide either ip_address or node_name")
            /\ UNCHANGED agent
  /\ UNCHANGED <<params, node, calls, props, loops, filt, qs, nest, meta>>

\* ---------------------------------------------------------------------------
\* Vendor calls other than queries are recorded in the order they are sent

Call(op, target) == [ op |-> op, target |-> target ]

Issue(op, target) == calls' = Append(calls, Call(op, target))

\* ---------------------------------------------------------------------------
\* main: dispatch on state (orion_node.py 1332-1388)

\* PresentNothingToDo without the test of the agent's connection
PresentNothingToDo_AnyNode ==
  node.found

\* "Do nothing if the node exists and is not an agent node, or is an agent
\* node but is connected"
PresentNothingToDo ==
  /\ node.found
  /\ \/ node.object_sub_type # "AGENT"
     \/ agent.found /\ agent.connection_status = ORION_CONN_STATUS_CONNECTED

\* DispatchPresent without the test of module.check_mode
DispatchPresent_IgnoresCheckMode ==
  IF PresentNothingToDo
    THEN exit_json(FALSE, "node data")
    ELSE IF agent.found
      THEN Goto("present_remove_agent")
      ELSE Goto("validate_fields")

DispatchPresent ==
  IF PresentNothingToDo
    THEN exit_json(FALSE, "node data")
    ELSE IF params.check_mode
      THEN exit_json(TRUE, "")
      ELSE IF agent.found
        THEN Goto("present_remove_agent")
        ELSE Goto("validate_fields")

\* DispatchAbsent that leaves an existing agent alone
DispatchAbsent_KeepsAgent ==
  IF node.found \/ agent.found
    THEN IF params.check_mode
      THEN exit_json(TRUE, "")
      ELSE IF node.found
        THEN Goto("absent_remove_node")
        ELSE exit_json(TRUE, "Node has been removed")
    ELSE exit_json(FALSE, "Node does not exist")

DispatchAbsent ==
  IF node.found \/ agent.found
    THEN IF params.check_mode
      THEN exit_json(TRUE, "")
      ELSE IF agent.found
        THEN Goto("absent_remove_agent")
        ELSE Goto("absent_remove_node")
    ELSE exit_json(FALSE, "Node does not exist")

DispatchOther ==
  IF ~node.found
    THEN exit_json(FALSE, "Node does not exist")
    ELSE IF params.check_mode
      THEN exit_json(TRUE, "")
      ELSE Goto(params.state)

Dispatch ==
  /\ pc = "dispatch"
  /\ IF params.state = "present" THEN DispatchPresent
     ELSE IF params.state = "absent" THEN DispatchAbsent
     ELSE DispatchOther
  /\ UNCHANGED <<params, node, agent, calls, props, loops, filt, qs, nest, meta>>

\* OrionNode.remove_agent, called for state present and state absent
RemoveAgent ==
  /\ pc \in {"present_remove_agent", "absent_remove_agent"}
  /\ Issue("delete", "agent")
  /\ \E err \in BOOLEAN :
       IF err THEN fail_json("Error removing agent")
       ELSE IF pc = "present_remove_agent" THEN Goto("validate_fields")
       ELSE IF node.found THEN Goto("absent_remove_node")
       ELSE exit_json(TRUE, "Node has been removed")
  /\ UNCHANGED <<params, node, agent, props, loops, filt, qs, nest, meta>>

\* OrionNode.remove_node
RemoveNode ==
  /\ pc = "absent_remove_node"
  /\ Issue("delete", "node")
  /\ \E err \in BOOLEAN :
       IF err THEN fail_json("Error removing node")
       ELSE exit_json(TRUE, "Node has been removed")
  /\ UNCHANGED <<params, node, agent, props, loops, filt, qs, nest, meta>>

\* OrionNode.remanage_node
RemanageNode ==
  /\ pc = "remanaged"
  /\ Issue("invoke", "Remanage")
  /\ \E err \in BOOLEAN :
       IF err THEN fail_json("vendor error")
       ELSE exit_json(TRUE, "Node has been remanaged")
  /\ UNCHANGED <<params, node, agent, props, loops, filt, qs, nest, meta>>

\* OrionNode.unmanage_node: nothing to do when the node is already unmanaged
\* (node["unmanaged"]) for the same window (same), else invoke Unmanage
UnmanageNode ==
  /\ pc = "unmanaged"
  /\ \E unmanaged \in BOOLEAN, same \in BOOLEAN, err \in BOOLEAN :
       IF unmanaged /\ same
         THEN exit_json(FALSE, "") /\ UNCHANGED calls
         ELSE /\ Issue("invoke", "Unmanage")
              /\ IF err THEN fail_json("Failed to unmanage node")
                 ELSE exit_json(TRUE, "Node will be unmanaged")
  /\ UNCHANGED <<params, node, agent, props, loops, filt, qs, nest, meta>>

\* OrionNode.mute_node / unmute_node, first half: GetAlertSuppressionState
\* is invoked outside any try block
GetAlertSuppressionState ==
  /\ pc \in {"muted", "unmuted"}
  /\ Issue("invoke", "GetAlertSuppressionState")
  /\ \E err \in BOOLEAN, already \in BOOLEAN :
       IF err THEN Uncaught("vendor error in GetAlertSuppressionState")
       ELSE IF already THEN exit_json(FALSE, "")
       ELSE IF pc = "muted" THEN Goto("suppress_alerts")
       ELSE Goto("resume_alerts")
  /\ UNCHANGED <<params, node, agent, props, loops, filt, qs, nest, meta>>

\* mute_node, second half
SuppressAlerts ==
  /\ pc = "suppress_alerts"
  /\ Issue("invoke", "SuppressAlerts")
  /\ \E err \in BOOLEAN :
       IF err THEN fail_json("Failed to mute node")
       ELSE exit_json(TRUE, "Node will be muted")
  /\ UNCHANGED <<params, node, agent, props, loops, filt, qs, nest, meta>>

\* unmute_node, second half
ResumeAlerts ==
  /\ pc = "resume_alerts"
  /\ Issue("invoke", "ResumeAlerts")
  /\ \E err \in BOOLEAN :
       IF err THEN fail_json("Failed to unmute node")
       ELSE exit_json(TRUE, "Node has been unmuted")
  /\ UNCHANGED <<params, node, agent, props, loops, filt, qs, nest, meta>>

\* ---------------------------------------------------------------------------
\* add_node: validate_fields (orion_node.py 425-537)

\* Options read only on the add path; they are drawn when add_node starts.
\* discovery_polling_engine_name is None, equal to polling_engine_name
\* ("same") or a different name ("other").  polling_engine_id is 0 when the
\* option is not given; mutually_exclusive lets through at most one of
\* polling_engine_id and polling_engine_name.
AddOptions ==
  { o \in [ has_dot : BOOLEAN,
            polling_engine_name : BOOLEAN,
            polling_engine_id : {0} \cup EngineIds,
            discovery_polling_engine_name : {None, "same", "other"},
            ncreds : 0..MaxCreds ] :
      /\ o.discovery_polling_engine_name = "same" => o.polling_engine_name
      /\ o.polling_engine_id # 0 => ~o.polling_engine_name }

LookupResults == {"found", "missing", "error"}

Verdict(kind, m, pr) == [ kind |-> kind, msg |-> m, props |-> pr ]

\* validate_fields(module) for params p and options o; pe and dpe are the
\* results of the polling engine lookups, e1 and e2 the engine ids found.
validate_fields(p, o, pe, e1, dpe, e2) ==
  LET EngineID == IF o.polling_engine_name THEN e1 ELSE 1
      uses_discovery == p.polling_method \in POLLING_METHODS_USING_DISCOVERY
      own_discovery == /\ uses_discovery
                       /\ o.discovery_polling_engine_name = "other"
      DiscoveryEngineID == IF own_discovery THEN e2
                           ELSE IF uses_discovery THEN EngineID ELSE 0
      result == [ set |-> TRUE,
                  DNS |-> o.has_dot,
                  EngineID |-> EngineID,
                  DiscoveryEngineID |-> DiscoveryEngineID,
                  ncreds |-> IF uses_discovery THEN o.ncreds ELSE 0,
                  polling_engine_id |-> o.polling_engine_id,
                  discovery_polling_engine_name |->
                    IF uses_discovery THEN o.discovery_polling_engine_name ELSE None,
                  discovery_polling_engine |-> IF own_discovery THEN e2 ELSE 0 ]
  IN
  IF p.polling_method = None
    THEN Verdict("fail", "Polling method not supported", NoProps)
  ELSE IF ~p.node_name
    THEN Verdict("exception", "TypeError: node_name is None", NoProps)
  ELSE IF o.polling_engine_name /\ pe = "error"
    THEN Verdict("fail", "Failed to retrieve polling engine", NoProps)
  ELSE IF o.polling_engine_name /\ pe = "missing"
    THEN Verdict("fail", "Failed to find polling engine", NoProps)
  ELSE IF own_discovery /\ dpe = "error"
    THEN Verdict("fail", "Failed to retrieve polling engine", NoProps)
  ELSE IF own_discovery /\ dpe = "missing"
    THEN Verdict("fail", "Failed to find discovery polling engine", NoProps)
  ELSE IF ~p.ip_address
    THEN Verdict("exception", "KeyError: IPAddress", NoProps)
  ELSE IF p.polling_method = "snmp" /\ o.ncreds = 0
    THEN Verdict("fail", "One or more credential names are required", NoProps)
  ELSE IF p.polling_method = "agent" /\ p.agent_mode # "passive"
    THEN Verdict("fail", "Only passive agents are currently supported", NoProps)
  ELSE Verdict("ok", "", result)

\* add_node: the branch on polling_method after validate_fields
AddBranch(pm) ==
  IF pm = "agent" THEN "add_agent"
  ELSE IF pm \in POLLING_METHODS_USING_DISCOVERY THEN "discover_creds"
  ELSE "create_node"

ValidateFields ==
  /\ pc = "validate_fields"
  /\ \E o \in AddOptions, pe \in LookupResults, dpe \in LookupResults,
        e1 \in EngineIds, e2 \in EngineIds :
       LET v == validate_fields(params, o, pe, e1, dpe, e2) IN
         /\ props' = v.props
         /\ IF v.kind = "ok" THEN Goto(AddBranch(params.polling_method))
            ELSE IF v.kind = "fail" THEN fail_json(v.msg)
            ELSE Uncaught(v.msg)
  /\ UNCHANGED <<params, node, agent, calls, loops, filt, qs, nest, meta>>

\* A vendor call inside try/except whose handler calls fail_json
Guarded(label, op, target, failmsg, next) ==
  /\ pc = label
  /\ Issue(op, target)
  /\ \E err \in BOOLEAN : IF err THEN fail_json(failmsg) ELSE Goto(next)

\* ---------------------------------------------------------------------------
\* discover_node (orion_node.py 539-746)

\* the credential lookups, two guarded queries per credential name
DiscoverCredentials ==
  /\ pc = "discover_creds"
  /\ \E r \in LookupResults :
       IF props.ncreds = 0 \/ r = "found" THEN Goto("core_plugin")
       ELSE fail_json("Failed to retrieve credential")
  /\ UNCHANGED <<params, node, agent, calls, props, loops, filt, qs, nest, meta>>

CreateCorePluginConfiguration ==
  /\ Guarded("core_plugin", "invoke", "CreateCorePluginConfiguration",
             "Failed to create core plugin configuration", "interfaces_plugin")
  /\ UNCHANGED <<params, node, agent, props, loops, filt, qs, nest, meta>>

CreateInterfacesPluginConfiguration ==
  /\ Guarded("interfaces_plugin", "invoke", "CreateInterfacesPluginConfiguration",
             "Failed to create interfaces plugin configuration", "start_discovery")
  /\ UNCHANGED <<params, node, agent, props, loops, filt, qs, nest, meta>>

StartDiscovery ==
  /\ Guarded("start_discovery", "invoke", "StartDiscovery",
             "Failed to start node discovery", "discovery_poll")
  /\ UNCHANGED <<params, node, agent, props, loops, filt, qs, nest, meta>>

\* the statuses that end the wait loop
DiscoveryDone ==
  { ORION_DISCOVERY_JOB_STATUS_FINISHED, ORION_DISCOVERY_JOB_STATUS_ERROR,
    ORION_DISCOVERY_JOB_STATUS_NOT_COMPLETED, ORION_DISCOVERY_JOB_STATUS_CANCELING }

\* discovery_active after one status query returned rows rows, the first
\* with status st
DiscoveryActive(rows, st) == rows > 0 /\ st \notin DiscoveryDone

\* DiscoveryTimedOut with > in place of >=
DiscoveryTimedOut_Late(iter) == iter > DISCOVERY_STATUS_CHECK_RETRIES

DiscoveryTimedOut(iter) == iter >= DISCOVERY_STATUS_CHECK_RETRIES

\* one iteration of "while discovery_active"
DiscoveryPoll ==
  /\ pc = "discovery_poll"
  /\ \E err \in BOOLEAN, rows \in 0..1, st \in DiscoveryStatuses :
       IF err
         THEN /\ fail_json("Failed to query node discovery status")
              /\ loops' = [loops EXCEPT !.status_queries = @ + 1]
         ELSE IF ~DiscoveryActive(rows, st)
           THEN /\ Goto("discovery_logs")
                /\ loops' = [loops EXCEPT !.status_queries = @ + 1]
           ELSE /\ loops' = [loops EXCEPT !.status_queries = @ + 1,
                                          !.discovery_iter = @ + 1]
                /\ IF DiscoveryTimedOut(loops.discovery_iter + 1)
                     THEN fail_json("Timeout while waiting for node discovery job to terminate")
                     ELSE Goto("discovery_poll")
  /\ UNCHANGED <<params, node, agent, calls, props, filt, qs, nest, meta>>

\* the Result values of the discovery log that abort the run
DiscoveryFailed ==
  { ORION_DISCOVERY_JOB_STATUS_UNKNOWN, ORION_DISCOVERY_JOB_STATUS_ERROR,
    ORION_DISCOVERY_JOB_STATUS_NOT_COMPLETED, ORION_DISCOVERY_JOB_STATUS_CANCELING }

\* query of Orion.DiscoveryLogs and the check of its Result
DiscoveryLogs ==
  /\ pc = "discovery_logs"
  /\ \E err \in BOOLEAN, rows \in 0..1, result \in DiscoveryStatuses :
       IF err THEN fail_json("Failed to query discovery logs")
       ELSE IF rows = 0 THEN Uncaught("IndexError: discovery log is empty")
       ELSE IF result \in DiscoveryFailed
         THEN fail_json("Node discovery did not complete successfully")
       ELSE Goto("discovered_nodes")
  /\ loops' = NoLoops
  /\ UNCHANGED <<params, node, agent, calls, props, filt, qs, nest, meta>>

\* query of the discovered nodes; discover_node returns its first row
DiscoveredNodes ==
  /\ pc = "discovered_nodes"
  /\ \E err \in BOOLEAN, rows \in 0..1 :
       IF err THEN fail_json("Failed to query discovered nodes")
       ELSE IF rows = 0 THEN fail_json("Node not found in discovery results")
       ELSE Goto("added_node")
  /\ UNCHANGED <<params, node, agent, calls, props, loops, filt, qs, nest, meta>>

\* ---------------------------------------------------------------------------
\* add_node_icmp, add_node_snmp_wmi, add_node_agent (orion_node.py 986-1071)

CreateNode ==
  /\ Guarded("create_node", "create", "Orion.Nodes", "Failed to add node", "added_node")
  /\ UNCHANGED <<params, node, agent, props, loops, filt, qs, nest, meta>>

\* NeedsEngineUpdate that moves the node after every discovery
NeedsEngineUpdate_Always ==
  params.polling_method \in POLLING_METHODS_USING_DISCOVERY

\* add_node_snmp_wmi: if props["DiscoveryEngineID"] != props["EngineID"]
NeedsEngineUpdate ==
  /\ params.polling_method \in POLLING_METHODS_USING_DISCOVERY
  /\ props.DiscoveryEngineID # props.EngineID

\* node = self.node(module) after create or discovery (unguarded), then for
\* snmp and wmi the test whether the node must move to its polling engine
AddedNode ==
  /\ pc = "added_node"
  /\ \E err \in BOOLEAN, r \in NodeResults :
       IF err THEN Uncaught("vendor error in node query") /\ UNCHANGED node
       ELSE /\ node' = r
            /\ IF NeedsEngineUpdate
                 THEN IF r.found THEN Goto("engine_update")
                      ELSE Uncaught("TypeError: node is None")
                 ELSE Goto("set_caption")
  /\ UNCHANGED <<params, agent, calls, props, loops, filt, qs, nest, meta>>

EngineUpdate ==
  /\ Guarded("engine_update", "update", "EngineID",
             "Failed to move node to final polling engine", "set_caption")
  /\ UNCHANGED <<params, node, agent, props, loops, filt, qs, nest, meta>>

AddPassiveAgent ==
  /\ Guarded("add_agent", "invoke", "AddPassiveAgent", "Failed to add agent",
             IF node.found THEN "set_caption" ELSE "agent_node_wait")
  /\ UNCHANGED <<params, node, agent, props, loops, filt, qs, nest, meta>>

\* one iteration of "while node_pending"
AgentNodeWait ==
  /\ pc = "agent_node_wait"
  /\ \E err \in BOOLEAN, r \in NodeResults :
       IF err
         THEN Uncaught("vendor error in node query") /\ UNCHANGED <<node, loops>>
         ELSE /\ node' = r
              /\ IF r.found
                   THEN Goto("set_caption") /\ loops' = NoLoops
                   ELSE /\ loops' = [loops EXCEPT !.node_status_iter = @ + 1]
                        /\ IF loops.node_status_iter + 1 >= AGENT_NODE_CREATION_CHECK_RETRIES
                             THEN fail_json("No more retries while waiting for node to be created for new agent")
                             ELSE Goto("agent_node_wait")
  /\ UNCHANGED <<params, agent, calls, props, filt, qs, nest, meta>>

\* ---------------------------------------------------------------------------
\* add_node after the node exists (orion_node.py 1091-1106)

\* "if node['caption'] != module.params['caption']: self.set_caption(...)"
SetCaption ==
  /\ pc = "set_caption"
  /\ \E differs \in BOOLEAN, err \in BOOLEAN :
       IF ~node.found
         THEN Uncaught("TypeError: node is None") /\ UNCHANGED calls
       ELSE IF ~differs
         THEN Goto("set_dns") /\ UNCHANGED calls
       ELSE /\ Issue("update", "Caption")
            /\ IF err THEN fail_json("Failed to update node Caption")
               ELSE Goto("set_dns")
  /\ UNCHANGED <<params, node, agent, props, loops, filt, qs, nest, meta>>

\* where add_node goes once the custom properties are set
AfterCustomProperties == IF params.polling_method = "agent" THEN "schedule_list" ELSE "interfaces_query"

\* props["External"]
External == params.polling_method = "external"

\* set_dns, then the entry of set_custom_properties with ncustom keys in
\* module.params["custom_properties"]; the steps that follow read none of
\* the fields of props kept here
SetDns ==
  /\ pc = "set_dns"
  /\ \E err \in BOOLEAN, ncustom \in 0..MaxCustomProps :
       LET n == IF External THEN 0 ELSE ncustom
           next == IF n > 0 THEN "custom_property" ELSE AfterCustomProperties
       IN /\ filt' = [filt EXCEPT !.todo = n]
          /\ IF props.DNS
               THEN /\ Issue("update", "DNS")
                    /\ IF err THEN fail_json("Failed to set DNS name") ELSE Goto(next)
               ELSE Goto(next) /\ UNCHANGED calls
  /\ props' = NoProps
  /\ UNCHANGED <<params, node, agent, loops, qs, nest, meta>>

\* one iteration of "for k in custom_properties.keys()"
SetCustomProperty ==
  /\ pc = "custom_property"
  /\ Issue("update", "CustomProperties")
  /\ filt' = [filt EXCEPT !.todo = @ - 1]
  /\ \E err \in BOOLEAN :
       IF err THEN fail_json("Failed to add custom properties")
       ELSE IF filt.todo > 1 THEN Goto("custom_property")
       ELSE Goto(AfterCustomProperties)
  /\ UNCHANGED <<params, node, agent, props, loops, qs, nest, meta>>

\* ---------------------------------------------------------------------------
\* list_resources_for_node, import_resources_for_node (orion_node.py 748-818)

ScheduleListResources ==
  /\ Guarded("schedule_list", "invoke", "ScheduleListResources",
             "Failed to schedule list resources job", "job_creation_pending")
  /\ UNCHANGED <<params, node, agent, props, loops, filt, qs, nest, meta>>

\* ListResourcesTimedOut with > in place of >=
ListResourcesTimedOut_Late(iter) == iter > LIST_RESOURCES_STATUS_CHECK_RETRIES

ListResourcesTimedOut(iter) == iter >= LIST_RESOURCES_STATUS_CHECK_RETRIES

\* one iteration of "while job_creation_pending"
JobCreationPending ==
  /\ pc = "job_creation_pending"
  /\ \E err \in BOOLEAN, st \in ListResourcesStatuses :
       IF err
         THEN /\ fail_json("Failed to get list resources job status")
              /\ loops' = [loops EXCEPT !.status_calls = @ + 1]
         ELSE IF st # "Unknown"
           THEN /\ Goto("job_pending")
                /\ loops' = [loops EXCEPT !.status_calls = @ + 1]
           ELSE /\ loops' = [loops EXCEPT !.status_calls = @ + 1,
                                          !.sleeps = @ + 1,
                                          !.job_retries_iter = @ + 1]
                /\ IF ListResourcesTimedOut(loops.job_retries_iter + 1)
                     THEN fail_json("Timeout waiting for creation of ListResources job")
                     ELSE Goto("job_creation_pending")
  /\ UNCHANGED <<params, node, agent, calls, props, filt, qs, nest, meta>>

\* one iteration of "while job_pending"
JobPending ==
  /\ pc = "job_pending"
  /\ \E err \in BOOLEAN, st \in ListResourcesStatuses :
       IF err
         THEN /\ fail_json("Failed to get list resources job status")
              /\ loops' = [loops EXCEPT !.status_calls = @ + 1]
         ELSE IF st = "ReadyForImport"
           THEN /\ Goto("import_resources")
                /\ loops' = [loops EXCEPT !.status_calls = @ + 1,
                                          !.ready_seen = TRUE]
           ELSE IF ListResourcesTimedOut(loops.job_retries_iter + 1)
             THEN /\ fail_json("Timeout waiting for ListResources job to terminate")
                  /\ loops' = [loops EXCEPT !.status_calls = @ + 1,
                                            !.job_retries_iter = @ + 1]
             ELSE /\ Goto("job_pending")
                  /\ loops' = [loops EXCEPT !.status_calls = @ + 1,
                                            !.job_retries_iter = @ + 1,
                                            !.sleeps = @ + 1]
  /\ UNCHANGED <<params, node, agent, calls, props, filt, qs, nest, meta>>

ImportListResourcesResult ==
  /\ Guarded("import_resources", "invoke", "ImportListResourcesResult",
             "Failed to import resources", "interfaces_query")
  /\ loops' = NoLoops
  /\ UNCHANGED <<params, node, agent, props, filt, qs, nest, meta>>

\* ---------------------------------------------------------------------------
\* filter_interfaces, filter_volumes (orion_node.py 820-936)

Texts == {"Loopback", "Ethernet"}
Patterns == {"loopback"}

\* str.lower on the texts of the model
Lower(t) ==
  CASE t = "Loopback" -> "loopback"
    [] t = "Ethernet" -> "ethernet"
    [] OTHER -> t

\* re.search(pattern, text, re.IGNORECASE) for a pattern without
\* metacharacters that spells the whole text
re_search(pattern, text) == Lower(pattern) = Lower(text)

\* a filter is a dict with the key "type", the key "name", or both
FilterSpace ==
  [ type : Patterns \cup {None}, name : Patterns \cup {None} ]
    \ { [ type |-> None, name |-> None ] }

\* a row of the volumes query: VolumeType and DisplayName
VolumeSpace == [ type : Texts, name : Texts ]

\* a row of the interfaces query: InterfaceTypeDescription; the query does
\* not select DisplayName
InterfaceSpace == [ type : Texts ]

SeqsUpTo(S, n) == UNION { [1..k -> S] : k \in 0..n }

\* the inner loop over the filters for one entry, from filter i on:
\* "remove", "keep", or "KeyError" when entry["DisplayName"] is read from a
\* row that has no such column
RECURSIVE FilterEntry(_, _, _, _)
FilterEntry(entry, filters, i, has_display_name) ==
  IF i > Len(filters) THEN "keep"
  ELSE IF filters[i].type # None
    THEN IF re_search(filters[i].type, entry.type) THEN "remove"
         ELSE FilterEntry(entry, filters, i + 1, has_display_name)
  ELSE IF filters[i].name # None
    THEN IF ~has_display_name THEN "KeyError"
         ELSE IF re_search(filters[i].name, entry.name) THEN "remove"
         ELSE FilterEntry(entry, filters, i + 1, has_display_name)
  ELSE FilterEntry(entry, filters, i + 1, has_display_name)

\* the entries the outer loop appends to interfaces_to_remove / volumes_to_remove
ToRemove(entries, filters, has_display_name) ==
  { i \in 1..Len(entries) :
      FilterEntry(entries[i], filters, 1, has_display_name) = "remove" }

RaisesKeyError(entries, filters, has_display_name) ==
  \E i \in 1..Len(entries) :
    FilterEntry(entries[i], filters, 1, has_display_name) = "KeyError"

\* "if len(to_remove) > cutoff_max: fail_json(...)"
\* OverCutoff that tolerates one match more than the cut-off
OverCutoff_OffByOne(matches, cutoff_max) == matches > cutoff_max + 1

OverCutoff(matches, cutoff_max) == matches > cutoff_max

\* filter_interfaces up to its delete loop
InterfacesQuery ==
  /\ pc = "interfaces_query"
  /\ \E err \in BOOLEAN, entries \in SeqsUpTo(InterfaceSpace, MaxEntries),
        filters \in SeqsUpTo(FilterSpace, MaxFilters), cutoff \in 0..MaxCutoff :
       LET n == Cardinality(ToRemove(entries, filters, FALSE)) IN
       IF err
         THEN fail_json("Failed to query interfaces") /\ UNCHANGED filt
       ELSE IF RaisesKeyError(entries, filters, FALSE)
         THEN Uncaught("KeyError: DisplayName") /\ UNCHANGED filt
       ELSE /\ filt' = [filt EXCEPT !.if_matches = n, !.if_cutoff = cutoff, !.todo = n]
            /\ IF OverCutoff(n, cutoff)
                 THEN fail_json("Too many interfaces to remove - aborting for safety")
                 ELSE IF n > 0 THEN Goto("delete_interface")
                 ELSE Goto("volumes_query")
  /\ UNCHANGED <<params, node, agent, calls, props, loops, qs, nest, meta>>

\* one iteration of "for interface in interfaces_to_remove"
DeleteInterface ==
  /\ pc = "delete_interface"
  /\ Issue("delete", "interface")
  /\ filt' = [filt EXCEPT !.todo = @ - 1, !.if_deleted = @ + 1]
  /\ \E err \in BOOLEAN :
       IF err THEN fail_json("Failed to delete interface")
       ELSE IF filt.todo > 1 THEN Goto("delete_interface")
       ELSE Goto("volumes_query")
  /\ UNCHANGED <<params, node, agent, props, loops, qs, nest, meta>>

\* filter_volumes up to its delete loop
VolumesQuery ==
  /\ pc = "volumes_query"
  /\ \E err \in BOOLEAN, entries \in SeqsUpTo(VolumeSpace, MaxEntries),
        filters \in SeqsUpTo(FilterSpace, MaxFilters), cutoff \in 0..MaxCutoff :
       LET n == Cardinality(ToRemove(entries, filters, TRUE)) IN
       IF err
         THEN fail_json("Failed to query volumes") /\ UNCHANGED filt
       ELSE /\ filt' = [filt EXCEPT !.vol_matches = n, !.vol_cutoff = cutoff, !.todo = n]
            /\ IF OverCutoff(n, cutoff)
                 THEN fail_json("Too many volumes to remove - aborting for safety")
                 ELSE IF n > 0 THEN Goto("delete_volume")
                 ELSE exit_json(TRUE, "Node has been added")
  /\ UNCHANGED <<params, node, agent, calls, props, loops, qs, nest, meta>>

\* one iteration of "for volume in volumes_to_remove"
DeleteVolume ==
  /\ pc = "delete_volume"
  /\ Issue("delete", "volume")
  /\ filt' = [filt EXCEPT !.todo = @ - 1, !.vol_deleted = @ + 1]
  /\ \E err \in BOOLEAN :
       IF err THEN fail_json("Failed to delete volume")
       ELSE IF filt.todo > 1 THEN Goto("delete_volume")
       ELSE exit_json(TRUE, "Node has been added")
  /\ UNCHANGED <<params, node, agent, props, loops, qs, nest, meta>>

\* ---------------------------------------------------------------------------
\* A run of orion_node

InitNode ==
  /\ params \in InputParams
  /\ pc = "args"
  /\ outcome = "running"
  /\ msg = ""
  /\ changed = FALSE
  /\ node = NoNode
  /\ agent = NoAgent
  /\ calls = <<>>
  /\ props = NoProps
  /\ loops = NoLoops
  /\ filt = NoFilt
  /\ qs = NoQs
  /\ nest = NoNest
  /\ meta = NoMeta

NextNode ==
  \/ ParseArgs
  \/ Connect
  \/ LookupNode
  \/ LookupAgent
  \/ Dispatch
  \/ RemoveAgent
  \/ RemoveNode
  \/ RemanageNode
  \/ UnmanageNode
  \/ GetAlertSuppressionState
  \/ SuppressAlerts
  \/ ResumeAlerts
  \/ ValidateFields
  \/ DiscoverCredentials
  \/ CreateCorePluginConfiguration
  \/ CreateInterfacesPluginConfiguration
  \/ StartDiscovery
  \/ DiscoveryPoll
  \/ DiscoveryLogs
  \/ DiscoveredNodes
  \/ CreateNode
  \/ AddedNode
  \/ EngineUpdate
  \/ AddPassiveAgent
  \/ AgentNodeWait
  \/ SetCaption
  \/ SetDns
  \/ SetCustomProperty
  \/ ScheduleListResources
  \/ JobCreationPending
  \/ JobPending
  \/ ImportListResourcesResult
  \/ InterfacesQuery
  \/ DeleteInterface
  \/ VolumesQuery
  \/ DeleteVolume

SpecNode == InitNode /\ [][NextNode]_vars

\* ===========================================================================
\* Part II: SolarWindsQuery.execute (solarwinds_query.py) and
\* SQLQueryBuilder (sql_query_builder.py)

MaxCriteria == 2
MaxInclude == 2
MaxExclude == 1

\* A filter criterion is a Python value: an int, a str, a bool or None
IntC(n) == [ t |-> "int", n |-> n, s |-> "", b |-> FALSE ]
StrC(x) == [ t |-> "str", n |-> 0, s |-> x, b |-> FALSE ]
BoolC(b) == [ t |-> "bool", n |-> 0, s |-> "", b |-> b ]
NoneC == [ t |-> "none", n |-> 0, s |-> "", b |-> FALSE ]

Criteria == { IntC(1), StrC("1"), StrC("."), StrC("web"), StrC("yes"), BoolC(TRUE), NoneC }

\* the values of a min / max modifier
ModifierValues == { IntC(1), StrC("1") }

\* filter_content: a single criterion, a list of criteria, or a dict of
\* modifiers (keys in order, items[i] the value of keys[i])
Scalar(c) == [ kind |-> "scalar", items |-> <<c>>, keys |-> <<>> ]
List(cs) == [ kind |-> "list", items |-> cs, keys |-> <<>> ]
Dict(ks, vs) == [ kind |-> "dict", items |-> vs, keys |-> ks ]

ModifierKeys == { <<"min">>, <<"max">>, <<"min", "max">>, <<"other">> }

Contents ==
  { Scalar(c) : c \in Criteria }
    \cup { List(cs) : cs \in SeqsUpTo(Criteria, MaxCriteria) }
    \cup UNION { { Dict(ks, vs) : vs \in [1..Len(ks) -> ModifierValues] } : ks \in ModifierKeys }

\* the characters of the strings of the model
Chars(x) ==
  CASE x = "1" -> <<"1">>
    [] x = "." -> <<".">>
    [] x = "web" -> <<"w", "e", "b">>
    [] x = "yes" -> <<"y", "e", "s">>
    [] OTHER -> <<>>

\* re.match(pattern, string) for a pattern made of literal characters and
\* ".": the pattern must match a prefix of the string
re_match(pattern, string) ==
  /\ Len(pattern) <= Len(string)
  /\ \A i \in 1..Len(pattern) : pattern[i] = "." \/ pattern[i] = string[i]

\* the second argument of re.match in column_filters: the text "[0-9]+"
IntPatternText == <<"[", "0", "-", "9", "]", "+">>

\* the text "[a-z0-9]{8}(-[a-z0-9]{4}){3}-[a-z0-9]{12}", its first characters
GuidPatternText == <<"[", "a", "-", "z", "0", "-", "9", "]", "{", "8", "}">>

\* datetime.fromisoformat(x) succeeds
IsIsoFormat(x) == FALSE

SupportedTypes ==
  { "System.String", "System.Type", "System.Guid", "System.DateTime",
    "System.Int16", "System.Int32", "System.Boolean" }

Reject == [ act |-> "reject", op |-> "", val |-> [ quoted |-> FALSE, c |-> NoneC ] ]
Skip == [ act |-> "skip", op |-> "", val |-> [ quoted |-> FALSE, c |-> NoneC ] ]
AppendFilter(op, quoted, c) == [ act |-> "append", op |-> op, val |-> [ quoted |-> quoted, c |-> c ] ]

\* isinstance(c, int): bool is a subclass of int
IsInstanceInt(c) == c.t \in {"int", "bool"}

\* the Boolean branch of column_filters; a criterion that is neither bool
\* nor str falls through without a filter and without a return
boolean_filter(c) ==
  IF c.t = "bool" THEN AppendFilter("=", FALSE, c)
  ELSE IF c.t = "str"
    THEN IF c.s \in {"yes", "on", "true"} THEN AppendFilter("=", FALSE, BoolC(TRUE))
         ELSE IF c.s \in {"no", "off", "false"} THEN AppendFilter("=", FALSE, BoolC(FALSE))
         ELSE Reject
  ELSE Skip

\* the body of "for criterion in ..." of column_filters for one criterion
criterion_filter(data_type, c) ==
  IF data_type \notin SupportedTypes THEN Reject
  ELSE IF /\ data_type \in {"System.String", "System.Type", "System.Guid", "System.DateTime"}
          /\ c.t # "str"
    THEN Reject
  ELSE IF data_type = "System.String" THEN AppendFilter("LIKE", TRUE, c)
  ELSE IF data_type \in {"System.Int16", "System.Int32"}
    THEN IF ~IsInstanceInt(c) /\ ~re_match(Chars(c.s), IntPatternText)
           THEN Reject
           ELSE AppendFilter("=", FALSE, c)
  ELSE IF data_type = "System.Guid"
    THEN IF ~re_match(Chars(c.s), GuidPatternText) THEN Reject
         ELSE AppendFilter("=", TRUE, c)
  ELSE IF data_type = "System.DateTime"
    THEN IF ~IsIsoFormat(c.s) THEN Reject ELSE AppendFilter("=", TRUE, c)
  ELSE IF data_type = "System.Boolean" THEN boolean_filter(c)
  ELSE Reject

\* column_filters for a list of criteria, from criterion i on: valid is
\* FALSE where the code returns False
RECURSIVE criteria_filters(_, _, _)
criteria_filters(data_type, criteria, i) ==
  IF i > Len(criteria) THEN [ valid |-> TRUE, filters |-> <<>> ]
  ELSE IF criteria[i].t = "none" THEN criteria_filters(data_type, criteria, i + 1)
  ELSE LET f == criterion_filter(data_type, criteria[i])
           rest == criteria_filters(data_type, criteria, i + 1)
       IN IF f.act = "reject" \/ ~rest.valid THEN [ valid |-> FALSE, filters |-> <<>> ]
          ELSE IF f.act = "skip" THEN rest
          ELSE [ valid |-> TRUE,
                 filters |-> <<[ op |-> f.op, val |-> f.val ]>> \o rest.filters ]

\* column_filters for a dict of modifiers, from key i on
RECURSIVE modifier_filters(_, _, _)
modifier_filters(data_type, content, i) ==
  IF i > Len(content.keys) THEN [ valid |-> TRUE, filters |-> <<>> ]
  ELSE LET key == content.keys[i]
           m == IF key \in {"max", "min"}
                  THEN criteria_filters(data_type, <<content.items[i]>>, 1)
                  ELSE [ valid |-> FALSE, filters |-> <<>> ]
           rest == modifier_filters(data_type, content, i + 1)
       IN IF ~m.valid \/ m.filters = <<>> \/ ~rest.valid
            THEN [ valid |-> FALSE, filters |-> <<>> ]
            ELSE [ valid |-> TRUE,
                   filters |-> <<[ op |-> IF key = "min" THEN ">=" ELSE "<=",
                                   val |-> m.filters[1].val ]>> \o rest.filters ]

\* SolarWindsQuery.column_filters(data_type, filter_content)
column_filters(data_type, filter_content) ==
  IF filter_content.kind = "dict"
    THEN modifier_filters(data_type, filter_content, 1)
    ELSE criteria_filters(data_type, filter_content.items, 1)

\* "if not column_filters": False and the empty list are both falsy
Falsy(cf) == ~cf.valid \/ cf.filters = <<>>

\* column_criteria_sql: the comparisons of one column, every one but the
\* first prefixed with "OR "
column_criteria_sql(column, filters) ==
  [ i \in 1..Len(filters) |->
      [ conn |-> IF i > 1 THEN "OR" ELSE "",
        column |-> column, op |-> filters[i].op, val |-> filters[i].val ] ]

\* the argument of base_query.WHERE: "({0})" or "NOT ({0})"
WhereThing(negated, column, filters) ==
  [ neg |-> negated, column |-> column, cmps |-> column_criteria_sql(column, filters) ]

\* SQLQueryBuilder.separators[keyword], else default_separator
separators_AlwaysOr(keyword) == IF keyword \in {"WHERE", "HAVING"} THEN "OR" ELSE ","

separators(keyword) == IF keyword \in {"WHERE", "HAVING"} THEN "AND" ELSE ","

\* SQLQueryBuilder._parts_keyword for things without a keyword of their own
parts_keyword(keyword, things) ==
  [ i \in 1..Len(things) |->
      [ content |-> things[i],
        sep |-> IF i < Len(things) THEN separators(keyword) ELSE "" ] ]

\* ---------------------------------------------------------------------------
\* The information service: the base table and the evaluation of a query

FilterColumns == { "NodeID", "Caption", "External", "CPULoad" }

\* Metadata.Property.Type of the columns
ColumnType(column) ==
  CASE column = "NodeID" -> "System.Int32"
    [] column = "Caption" -> "System.String"
    [] column = "External" -> "System.Boolean"
    [] OTHER -> "System.Single"

BaseTable ==
  { [ NodeID |-> 1, Caption |-> "web", External |-> TRUE ],
    [ NodeID |-> 2, Caption |-> "1", External |-> FALSE ],
    [ NodeID |-> 3, Caption |-> "web", External |-> FALSE ] }

\* a comparison the service can evaluate: the literal has the column's type
WellFormed(cmp) ==
  LET ty == ColumnType(cmp.column) IN
  \/ ty = "System.String" /\ cmp.op = "LIKE" /\ cmp.val.quoted /\ cmp.val.c.t = "str"
  \/ ty = "System.Int32" /\ cmp.op \in {"=", ">=", "<="} /\ ~cmp.val.quoted /\ cmp.val.c.t = "int"
  \/ ty = "System.Boolean" /\ cmp.op = "=" /\ ~cmp.val.quoted /\ cmp.val.c.t = "bool"

Holds(row, cmp) ==
  LET ty == ColumnType(cmp.column) IN
  IF ty = "System.String" THEN row[cmp.column] = cmp.val.c.s
  ELSE IF ty = "System.Boolean" THEN row[cmp.column] = cmp.val.c.b
  ELSE IF cmp.op = ">=" THEN row[cmp.column] >= cmp.val.c.n
  ELSE IF cmp.op = "<=" THEN row[cmp.column] <= cmp.val.c.n
  ELSE row[cmp.column] = cmp.val.c.n

\* "(c1 OR c2 ...)" or "NOT (c1 OR c2 ...)" on a row
ThingHolds(row, thing) ==
  (\E i \in 1..Len(thing.cmps) : Holds(row, thing.cmps[i])) # thing.neg

\* the WHERE parts on a row, AND binding tighter than OR; acc is the value
\* of the conjunction being read
RECURSIVE EvalWhere(_, _, _, _)
EvalWhere(row, parts, i, acc) ==
  IF i > Len(parts) THEN acc
  ELSE LET v == acc /\ ThingHolds(row, parts[i].content) IN
       IF parts[i].sep = "OR" THEN v \/ EvalWhere(row, parts, i + 1, TRUE)
       ELSE EvalWhere(row, parts, i + 1, v)

Malformed(parts) ==
  \E i \in 1..Len(parts) :
    \/ parts[i].sep \notin {"AND", "OR", ""}
    \/ \E j \in 1..Len(parts[i].content.cmps) : ~WellFormed(parts[i].content.cmps[j])

\* ---------------------------------------------------------------------------
\* execute: the include and exclude filter loops and the base query
\* (solarwinds_query.py 562-621)

\* the columns read from self._include (negated = FALSE) or self._exclude
ReadColumns(negated) ==
  { qs.read[i].column : i \in { n \in 1..Len(qs.read) : qs.read[n].neg = negated } }

InitQs ==
  [ used |-> TRUE,
    read |-> <<>>,             \* the entries of self._include, then of
                               \* self._exclude, read so far
    things |-> <<>>,           \* base_query.data["WHERE"]
    sent |-> FALSE,            \* the base query was sent
    parts |-> <<>>,            \* the WHERE parts of str(base_query)
    results |-> {} ]           \* base_query_res["results"]

\* one iteration of the include (negated = FALSE) or exclude loop
AddFilter(negated, column, content) ==
  LET data_type == ColumnType(column)
      cf == column_filters(data_type, content)
      read == Append(qs.read, [ neg |-> negated, column |-> column, content |-> content ])
  IN IF Falsy(cf)
       THEN /\ qs' = [qs EXCEPT !.read = read]
            /\ fail_json("Filter criteria not valid for property with data type")
       ELSE /\ qs' = [qs EXCEPT !.read = read,
                                !.things = Append(@, WhereThing(negated, column, cf.filters))]
            /\ Goto("filters")

AddIncludeFilter ==
  /\ pc = "filters"
  /\ ReadColumns(TRUE) = {}
  /\ Cardinality(ReadColumns(FALSE)) < MaxInclude
  /\ \E column \in FilterColumns \ ReadColumns(FALSE), content \in Contents :
       AddFilter(FALSE, column, content)
  /\ UNCHANGED <<params, node, agent, calls, props, loops, filt, nest, meta>>

AddExcludeFilter ==
  /\ pc = "filters"
  /\ Cardinality(ReadColumns(TRUE)) < MaxExclude
  /\ \E column \in FilterColumns \ ReadColumns(TRUE), content \in Contents :
       AddFilter(TRUE, column, content)
  /\ UNCHANGED <<params, node, agent, calls, props, loops, filt, nest, meta>>

\* self._client.query(str(base_query)) inside try/except
SendBaseQuery ==
  /\ pc = "filters"
  /\ LET parts == parts_keyword("WHERE", qs.things) IN
     \E err \in BOOLEAN :
       IF err \/ Malformed(parts)
         THEN /\ qs' = [qs EXCEPT !.sent = TRUE, !.parts = parts]
              /\ fail_json("Query for base table failed")
         ELSE /\ qs' = [qs EXCEPT !.sent = TRUE, !.parts = parts,
                                  !.results = { r \in BaseTable : EvalWhere(r, parts, 1, TRUE) }]
              /\ Goto("base_results")
  /\ UNCHANGED <<params, node, agent, calls, props, loops, filt, nest, meta>>

InitFilters ==
  /\ params = [ check_mode |-> FALSE ]
  /\ pc = "filters"
  /\ outcome = "running"
  /\ msg = ""
  /\ changed = FALSE
  /\ node = NoNode
  /\ agent = NoAgent
  /\ calls = <<>>
  /\ props = NoProps
  /\ loops = NoLoops
  /\ filt = NoFilt
  /\ qs = InitQs
  /\ nest = NoNest
  /\ meta = NoMeta

NextFilters ==
  \/ AddIncludeFilter
  \/ AddExcludeFilter
  \/ SendBaseQuery

SpecFilters == InitFilters /\ [][NextFilters]_vars

\* ---------------------------------------------------------------------------
\* execute: the supplementary queries, the index and the nesting loop
\* (solarwinds_query.py 623-771)

MaxBaseRows == 2

\* metadata["suppl_tables"], in the order of all_tables
SupplTables == << "Orion.NodesCustomProperties", "Orion.Volumes", "Orion.NPM.Interfaces" >>

\* SolarWindsEntityAlias(table).name, the table itself if the lookup raises
suppl_table_name(table) ==
  CASE table = "Orion.AgentManagement.Agent" -> "Agents"
    [] table = "Orion.NodesCustomProperties" -> "CustomProperties"
    [] table = "Orion.Engines" -> "Engines"
    [] table = "Orion.Nodes" -> "Nodes"
    [] table = "Orion.Volumes" -> "Volumes"
    [] OTHER -> table

\* metadata["projected_columns"][table] of a table that has input columns
projected_columns(table) ==
  CASE table = "Orion.Nodes" -> { "Caption" }
    [] table = "Orion.NodesCustomProperties" -> { "City" }
    [] table = "Orion.Volumes" -> { "Caption", "Size" }
    [] OTHER -> { "Name" }

\* the rows the service holds; NodeID is the join column of every relation
NodesRows ==
  { [ NodeID |-> n, Caption |-> "web" ] : n \in 1..MaxBaseRows }

SupplRows(table) ==
  CASE table = "Orion.NodesCustomProperties" ->
         { [ NodeID |-> 1, City |-> "Wellington" ], [ NodeID |-> 2, City |-> "Auckland" ] }
    [] table = "Orion.Volumes" ->
         { [ NodeID |-> 1, Caption |-> "C:", Size |-> 10 ],
           [ NodeID |-> 1, Caption |-> "D:", Size |-> 20 ] }
    [] OTHER ->
         { [ NodeID |-> 2, Name |-> "eth0" ] }

RECURSIVE SetToSeq(_)
SetToSeq(S) ==
  IF S = {} THEN <<>>
  ELSE LET x == CHOOSE y \in S : TRUE IN <<x>> \o SetToSeq(S \ {x})

\* the sub-sequences of a sequence, order kept
RECURSIVE SubSeqs(_)
SubSeqs(q) ==
  IF q = <<>> THEN { <<>> }
  ELSE LET rest == SubSeqs(Tail(q)) IN rest \cup { <<Head(q)>> \o r : r \in rest }

\* tuple(keys): str() of the value of every key column of the relation
join_key(row) == << ToString(row.NodeID) >>

\* {k: v for k, v in sub.items() if k in columns}
restrict(sub, columns) == [ k \in (DOMAIN sub) \cap columns |-> sub[k] ]

\* indexed[table]: the rows of the result under their key, in result order
index_rows(rows) ==
  [ k \in { join_key(rows[i]) : i \in 1..Len(rows) } |->
      SelectSeq(rows, LAMBDA r : join_key(r) = k) ]

NoRows == [ t \in {} |-> <<>> ]

InitNestState(base, tables) ==
  [ used |-> TRUE,
    base |-> base,             \* base_query_res["results"]
    tables |-> tables,         \* suppl tables in projected_columns and relations
    data |-> [ i \in 1..Len(base) |->
                 [ row |-> restrict(base[i], projected_columns("Orion.Nodes")),
                   nested |-> NoRows ] ],
    results |-> NoRows,        \* results[table] of the supplementary queries
    indexed |-> NoRows,
    suppl_table |-> "",        \* the loop variable of the first loop
    t |-> 1,                   \* position of the first loop in tables
    i |-> 1,                   \* position of the nesting loop in base
    j |-> 1 ]                  \* position of its inner loop in tables

\* one iteration of "for suppl_table in ...": the supplementary query of
\* the table for the keys of the base rows, and its index
SupplQuery ==
  /\ pc = "suppl"
  /\ nest.t <= Len(nest.tables)
  /\ LET table == nest.tables[nest.t]
         key_set == { join_key(nest.base[i]) : i \in 1..Len(nest.base) }
         rows == SetToSeq({ r \in SupplRows(table) : join_key(r) \in key_set })
     IN \E err \in BOOLEAN :
          IF err
            THEN /\ nest' = [nest EXCEPT !.suppl_table = table]
                 /\ fail_json("Join query for supplemental table failed")
            ELSE /\ nest' = [nest EXCEPT
                     !.suppl_table = table,
                     !.results = [ x \in DOMAIN @ \cup {table} |->
                                     IF x = table THEN rows ELSE @[x] ],
                     !.indexed = [ x \in DOMAIN @ \cup {table} |->
                                     IF x = table THEN index_rows(rows) ELSE @[x] ],
                     !.t = @ + 1]
                 /\ Goto(IF nest.t = Len(nest.tables) THEN "nest" ELSE "suppl")
  /\ UNCHANGED <<params, node, agent, calls, props, loops, filt, qs, meta>>

\* the table whose name and index the nesting loop reads: the variable of
\* the first loop, which holds its last table
NestSource(joined_table) == nest.suppl_table

\* one iteration of "for joined_table in ..." for base row i
NestRow ==
  /\ pc = "nest"
  /\ nest.i <= Len(nest.base)
  /\ nest.j <= Len(nest.tables)
  /\ LET r == nest.base[nest.i]
         joined_table == nest.tables[nest.j]
         keys == join_key(r)
         source == NestSource(joined_table)
         name == suppl_table_name(source)
         last == nest.j = Len(nest.tables)
         nested == nest.data[nest.i].nested
         moved == [nest EXCEPT !.j = IF last THEN 1 ELSE @ + 1,
                               !.i = IF last THEN @ + 1 ELSE @]
     IN IF keys \in DOMAIN nest.indexed[source]
          THEN nest' = [moved EXCEPT !.data[nest.i].nested =
                          [ x \in DOMAIN nested \cup {name} |->
                              IF x = name
                                THEN [ n \in 1..Len(nest.indexed[source][keys]) |->
                                         restrict(nest.indexed[source][keys][n],
                                                  projected_columns(joined_table)) ]
                                ELSE nested[x] ]]
          ELSE nest' = moved
  /\ Goto("nest")
  /\ UNCHANGED <<params, outcome, msg, changed, node, agent, calls, props, loops, filt, qs, meta>>

\* return info
ReturnInfo ==
  /\ pc = "nest"
  /\ nest.i > Len(nest.base) \/ nest.tables = <<>>
  /\ exit_json(FALSE, "")
  /\ UNCHANGED <<params, node, agent, calls, props, loops, filt, qs, nest, meta>>

InitNest ==
  /\ params = [ check_mode |-> FALSE ]
  /\ outcome = "running"
  /\ msg = ""
  /\ changed = FALSE
  /\ node = NoNode
  /\ agent = NoAgent
  /\ calls = <<>>
  /\ props = NoProps
  /\ loops = NoLoops
  /\ filt = NoFilt
  /\ qs = NoQs
  /\ meta = NoMeta
  /\ \E base \in SubSeqs(SetToSeq(NodesRows)), tables \in SubSeqs(SupplTables) :
       /\ nest = InitNestState(base, tables)
       /\ pc = IF tables = <<>> THEN "nest" ELSE "suppl"

NextNest ==
  \/ SupplQuery
  \/ NestRow
  \/ ReturnInfo

SpecNest == InitNest /\ [][NextNest]_vars

\* ---------------------------------------------------------------------------
\* SolarWindsQuery.relations (solarwinds_query.py 291-341)

\* rows of Metadata.Relationship that link the base table with a table,
\* the base table as SourceType or as TargetType
RelationshipRows ==
  UNION { { [ SourceType |-> "Orion.Nodes", TargetType |-> SupplTables[n] ],
            [ SourceType |-> SupplTables[n], TargetType |-> "Orion.Nodes" ] } :
          n \in 1..Len(SupplTables) }

\* the rows the relationship query returns for the tables asked for:
\* "'base' IN (SourceType, TargetType) AND 't' IN (SourceType, TargetType)"
relations_res(rows, base_table, suppl_tables) ==
  SetToSeq({ r \in rows :
               \E n \in 1..Len(suppl_tables) :
                 /\ base_table \in { r.SourceType, r.TargetType }
                 /\ suppl_tables[n] \in { r.SourceType, r.TargetType } })

\* {r["TargetType"]: r for r in relations_res["results"]}: a later row
\* replaces an earlier one of its key
table_relations(results) ==
  [ k \in { results[n].TargetType : n \in 1..Len(results) } |->
      LET last == CHOOSE n \in 1..Len(results) :
                    /\ results[n].TargetType = k
                    /\ \A m \in (n + 1)..Len(results) : results[m].TargetType # k
      IN results[last] ]

\* relations(suppl_tables): the query and the matching, in one try block
Relations ==
  /\ pc = "relations"
  /\ IF meta.suppl_tables = << >>
       THEN Goto("relations_done") /\ UNCHANGED meta
       ELSE \E err \in BOOLEAN :
              LET results == relations_res(meta.rows, meta.base_table, meta.suppl_tables)
                  relations == table_relations(results)
                  unmatched_tables ==
                    SelectSeq(meta.suppl_tables, LAMBDA t : t \notin DOMAIN relations)
              IN IF err
                   THEN fail_json("Failed to retrieve table relationships: vendor error")
                        /\ UNCHANGED meta
                 ELSE IF unmatched_tables # << >>
                   THEN fail_json("Failed to retrieve table relationships: No relationship found")
                        /\ UNCHANGED meta
                 ELSE /\ meta' = [meta EXCEPT !.relations = relations]
                      /\ Goto("relations_done")
  /\ UNCHANGED <<params, node, agent, calls, props, loops, filt, qs, nest>>

InitRelations ==
  /\ params = [ check_mode |-> FALSE ]
  /\ pc = "relations"
  /\ outcome = "running"
  /\ msg = ""
  /\ changed = FALSE
  /\ node = NoNode
  /\ agent = NoAgent
  /\ calls = <<>>
  /\ props = NoProps
  /\ loops = NoLoops
  /\ filt = NoFilt
  /\ qs = NoQs
  /\ nest = NoNest
  /\ \E rows \in SUBSET RelationshipRows, suppl_tables \in SubSeqs(SupplTables) :
       meta = [ used |-> TRUE,
                base_table |-> "Orion.Nodes",
                suppl_tables |-> suppl_tables,
                rows |-> rows,          \* Metadata.Relationship as the service holds it
                relations |-> << >> ]   \* the value relations() returns

NextRelations ==
  Relations

SpecRelations == InitRelations /\ [][NextRelations]_vars

\* ---------------------------------------------------------------------------
\* SolarWindsEntityAlias, the setters of SolarWindsQuery and properties()
\* (solarwinds_query.py 33-63, 93-137, 150-289)

MaxTableKeys == 2    \* table keys of include, exclude and columns together
MaxColumnKeys == 2   \* columns named under one table key

\* str.lower on the table and column names of the model
name_lower(s) ==
  CASE s \in { "Nodes", "NODES" } -> "nodes"
    [] s = "CustomProperties" -> "customproperties"
    [] s = "Orion.Nodes" -> "orion.nodes"
    [] s = "Orion.NodesCustomProperties" -> "orion.nodescustomproperties"
    [] s = "Orion.Missing" -> "orion.missing"
    [] s = "Caption" -> "caption"
    [] s = "NodeID" -> "nodeid"
    [] s = "City" -> "city"
    [] s = "Missing" -> "missing"
    [] OTHER -> s

\* the members of the enumeration that name a table of the model
SolarWindsEntityAlias ==
  [ a \in { "CustomProperties", "Nodes" } |->
      IF a = "Nodes" THEN "Orion.Nodes" ELSE "Orion.NodesCustomProperties" ]

\* the alias is matched by its member name only
from_alias_CaseSensitive(alias) ==
  IF alias \in DOMAIN SolarWindsEntityAlias THEN SolarWindsEntityAlias[alias] ELSE alias

\* from_alias_case_insensitive inside the try of a setter: the value of the
\* member whose name matches in lower case, the name itself on IndexError
from_alias_case_insensitive(alias) ==
  LET found == { m \in DOMAIN SolarWindsEntityAlias : name_lower(m) = name_lower(alias) }
  IN IF found = {} THEN alias ELSE SolarWindsEntityAlias[CHOOSE m \in found : TRUE]

\* a dict is a sequence of [k, v] in insertion order; d[k] = v keeps the
\* place of a key the dict has already
dict_set(d, k, v) ==
  IF \E i \in 1..Len(d) : d[i].k = k
    THEN [ i \in 1..Len(d) |-> IF d[i].k = k THEN [ k |-> k, v |-> v ] ELSE d[i] ]
    ELSE Append(d, [ k |-> k, v |-> v ])

\* the body of the setters of input_include, input_exclude and input_columns
RECURSIVE input_setter(_)
input_setter(value) ==
  IF value = << >> THEN << >>
  ELSE LET n == Len(value)
       IN dict_set(input_setter(SubSeq(value, 1, n - 1)),
                   from_alias_case_insensitive(value[n].k), value[n].v)

\* Metadata.Property of the service: EntityName -> the Name of its columns
MetadataProperty ==
  [ t \in { "Orion.Nodes", "Orion.NodesCustomProperties" } |->
      IF t = "Orion.Nodes" THEN { "NodeID", "Caption" } ELSE { "NodeID", "City" } ]

\* entity_properties: "WHERE EntityName IN (...)" compares as the service's
\* collation does, without regard to letter case
entity_properties(input_tables_set) ==
  [ t \in { e \in DOMAIN MetadataProperty :
              \E i \in input_tables_set : name_lower(i) = name_lower(e) } |->
      MetadataProperty[t] ]

\* case_insensitive_key(d, k) is not empty
case_insensitive_key(names, k) ==
  \E key \in names : name_lower(key) = name_lower(k)

\* [t for t in all_tables if t.lower() == table.lower()][0], and the same
\* for real_column
real_name(names, k) ==
  CHOOSE n \in names : name_lower(n) = name_lower(k)

\* self._include[real_table][real_column] = self._input_include[table][filter]
RECURSIVE real_filters(_, _)
real_filters(columns, items) ==
  IF items = << >> THEN << >>
  ELSE LET n == Len(items)
       IN dict_set(real_filters(columns, SubSeq(items, 1, n - 1)),
                   real_name(columns, items[n].k), items[n].v)

\* the loops over self._input_include and self._input_exclude: a table whose
\* content is None is skipped, a table starts from {} each time it is met
RECURSIVE real_include(_, _)
real_include(properties, input) ==
  IF input = << >> THEN << >>
  ELSE LET n == Len(input)
           rest == real_include(properties, SubSeq(input, 1, n - 1))
           real_table == real_name(DOMAIN properties, input[n].k)
       IN IF input[n].v.none THEN rest
          ELSE dict_set(rest, real_table,
                        real_filters(properties[real_table], input[n].v.items))

\* the loop over self._input_columns: the real names of the columns in the
\* order given, all the columns of the table for None
RECURSIVE real_columns(_, _)
real_columns(properties, input) ==
  IF input = << >> THEN << >>
  ELSE LET n == Len(input)
           real_table == real_name(DOMAIN properties, input[n].k)
       IN dict_set(real_columns(properties, SubSeq(input, 1, n - 1)), real_table,
                   IF input[n].v.none THEN SetToSeq(properties[real_table])
                   ELSE [ m \in 1..Len(input[n].v.items) |->
                            real_name(properties[real_table], input[n].v.items[m].k) ])

\* solarwinds_info.py 361-364: the four setters
SetInputs ==
  /\ pc = "set_inputs"
  /\ meta' = [meta EXCEPT !.base_table = from_alias_case_insensitive(meta.input.base_table),
                          !.input_include = input_setter(meta.input.include),
                          !.input_exclude = input_setter(meta.input.exclude),
                          !.input_columns = input_setter(meta.input.columns)]
  /\ Goto("properties")
  /\ UNCHANGED <<params, node, agent, calls, props, loops, filt, qs, nest>>

\* properties(): the query of Metadata.Property, then the real names of the
\* tables and columns of include, exclude and columns
Properties ==
  /\ pc = "properties"
  /\ \E err \in BOOLEAN :
       LET keys(d) == { d[n].k : n \in 1..Len(d) }
           input_tables_set == {meta.base_table} \cup keys(meta.input_include)
                                 \cup keys(meta.input_exclude) \cup keys(meta.input_columns)
           properties == entity_properties(input_tables_set)
           unmatched_tables == { t \in input_tables_set :
                                   ~case_insensitive_key(DOMAIN properties, t) }
           \* unmatched_includes, unmatched_excludes, unmatched_columns: a
           \* column asked for that no column of the real table matches
           unmatched(input) ==
             \E n \in 1..Len(input) :
               /\ ~input[n].v.none
               /\ \E m \in 1..Len(input[n].v.items) :
                    ~case_insensitive_key(properties[real_name(DOMAIN properties, input[n].k)],
                                          input[n].v.items[m].k)
       IN IF err
            THEN fail_json("Failed to retrieve entity properties: vendor error")
                 /\ UNCHANGED meta
          ELSE IF unmatched_tables # {}
            THEN fail_json("Unable to look up table(s)") /\ UNCHANGED meta
          ELSE IF unmatched(meta.input_include)
            THEN fail_json("Unable to look up column(s) specified in include filters")
                 /\ UNCHANGED meta
          ELSE IF unmatched(meta.input_exclude)
            THEN fail_json("Unable to look up column(s) specified in exclude filters")
                 /\ UNCHANGED meta
          ELSE IF unmatched(meta.input_columns)
            THEN fail_json("Unable to look up column(s) specified in input columns")
                 /\ UNCHANGED meta
          ELSE /\ meta' = [meta EXCEPT !.properties = properties,
                                       !.include = real_include(properties, meta.input_include),
                                       !.exclude = real_include(properties, meta.input_exclude),
                                       !.columns = real_columns(properties, meta.input_columns)]
               /\ Goto("properties_done")
  /\ UNCHANGED <<params, node, agent, calls, props, loops, filt, qs, nest>>

InitAliases ==
  /\ params = [ check_mode |-> FALSE ]
  /\ pc = "set_inputs"
  /\ outcome = "running"
  /\ msg = ""
  /\ changed = FALSE
  /\ node = NoNode
  /\ agent = NoAgent
  /\ calls = <<>>
  /\ props = NoProps
  /\ loops = NoLoops
  /\ filt = NoFilt
  /\ qs = NoQs
  /\ nest = NoNest
  /\ LET TableInputs == { "Nodes", "NODES", "orion.nodes", "CustomProperties" }
         BaseTableInputs == { "nodes", "Orion.Nodes", "orion.nodes", "Orion.Missing" }
         ColumnInputs == { "Caption", "caption", "nodeid", "Missing" }
         \* a dict is a sequence of [k, v] in insertion order, its keys distinct
         Distinct(d) == \A i, j \in 1..Len(d) : i # j => d[i].k # d[j].k
         \* what a table key holds: None, or columns each with a criterion,
         \* which is here the text of the key it was given under (for the
         \* option columns, a list of column names: the criteria are not read)
         ColumnDicts ==
           { [ none |-> TRUE, items |-> << >> ] } \cup
           UNION { { [ none |-> FALSE, items |-> d ] :
                       d \in { e \in [ 1..n -> { [ k |-> c, v |-> c ] : c \in ColumnInputs } ] :
                                 Distinct(e) } } : n \in 0..MaxColumnKeys }
         TableDicts(n) ==
           { d \in [ 1..n -> [ k : TableInputs, v : ColumnDicts ] ] : Distinct(d) }
     IN \E base_table \in BaseTableInputs, n_include, n_exclude, n_columns \in 0..MaxTableKeys :
          /\ n_include + n_exclude + n_columns <= MaxTableKeys
          /\ \E include \in TableDicts(n_include), exclude \in TableDicts(n_exclude),
                columns \in TableDicts(n_columns) :
               meta = [ used |-> TRUE,
                        input |-> [ base_table |-> base_table, include |-> include,
                                    exclude |-> exclude, columns |-> columns ],
                        base_table |-> None,
                        input_include |-> << >>, input_exclude |-> << >>,
                        input_columns |-> << >>,
                        include |-> << >>, exclude |-> << >>, columns |-> << >>,
                        properties |-> << >> ]

NextAliases ==
  \/ SetInputs
  \/ Properties

SpecAliases == InitAliases /\ [][NextAliases]_vars

\* ===========================================================================
\* Properties of a run of orion_node

VendorErrorMessages ==
  { "vendor error in node query", "vendor error in agent query",
    "vendor error in GetAlertSuppressionState" }

\* C1: whenever a vendor call raises an error the run ends through
\* fail_json; no run ends with the vendor's exception uncaught.
C1_VendorErrorsEndInFailJson ==
  ~(outcome = "exception" /\ msg \in VendorErrorMessages)

\* C2: with check_mode on, whatever the state and whichever of node and
\* agent exist, no create, update, delete or invoke is sent to the vendor
\* service.
C2_CheckModeSendsNoMutation ==
  params.check_mode => calls = <<>>

\* a check-mode run that reports a change it did not make
C2_Witness ==
  /\ params.check_mode
  /\ outcome = "exit"
  /\ changed
  /\ params.state = "present"
  /\ ~node.found

\* C3: discover_node issues at most DISCOVERY_STATUS_CHECK_RETRIES status
\* queries; after the last one it has left the wait loop or failed.
C3_DiscoveryPollIsBounded ==
  /\ loops.status_queries <= DISCOVERY_STATUS_CHECK_RETRIES
  /\ loops.status_queries = DISCOVERY_STATUS_CHECK_RETRIES => pc # "discovery_poll"

\* the run that polled while the job never reached a final status
C3_Witness ==
  /\ loops.status_queries = DISCOVERY_STATUS_CHECK_RETRIES
  /\ outcome = "fail"
  /\ msg = "Timeout while waiting for node discovery job to terminate"

\* C4: list_resources_for_node sleeps at most
\* LIST_RESOURCES_STATUS_CHECK_RETRIES times over its two wait loops, asks
\* for the job status at most once more than that, and returns only after a
\* ReadyForImport status.
C4_ListResourcesIsBounded ==
  /\ loops.sleeps <= LIST_RESOURCES_STATUS_CHECK_RETRIES
  /\ loops.status_calls <= LIST_RESOURCES_STATUS_CHECK_RETRIES + 1
  /\ pc = "import_resources" => loops.ready_seen

\* the function returns after sleeping in both loops as long as it may
C4_Witness ==
  /\ pc = "import_resources"
  /\ loops.ready_seen
  /\ loops.sleeps = LIST_RESOURCES_STATUS_CHECK_RETRIES - 1
  /\ loops.status_calls = LIST_RESOURCES_STATUS_CHECK_RETRIES + 1

\* C9: interface (volume) deletes are issued only when the number of
\* matching interfaces (volumes) is at most the cut-off; a run that fails on
\* the cut-off has issued none of them.
C9_CutoffGuardsDeletes ==
  /\ filt.if_deleted > 0 => filt.if_matches <= filt.if_cutoff
  /\ filt.vol_deleted > 0 => filt.vol_matches <= filt.vol_cutoff
  /\ filt.if_matches > filt.if_cutoff =>
       /\ filt.if_deleted = 0
       /\ outcome = "fail"
       /\ msg = "Too many interfaces to remove - aborting for safety"
  /\ filt.vol_matches > filt.vol_cutoff =>
       /\ filt.vol_deleted = 0
       /\ outcome = "fail"
       /\ msg = "Too many volumes to remove - aborting for safety"

\* more volumes match than the cut-off allows
C9_Witness ==
  /\ filt.vol_matches > filt.vol_cutoff
  /\ outcome = "fail"
  /\ filt.vol_deleted = 0

MissingIdentifierMessages ==
  { "one of the following is required: node_name, ip_address",
    "You must provide either ip_address or node_name",
    "You must provide either node_id, ip_address, or node_name" }

\* C10: a run that supplies node_id and neither node_name nor ip_address
\* does not fail for a missing identifier.
C10_NodeIdAloneIsAccepted ==
  (params.node_id /\ ~params.node_name /\ ~params.ip_address /\ outcome = "fail")
    => msg \notin MissingIdentifierMessages

\* ===========================================================================
\* Properties of SolarWindsQuery.execute

\* a criterion of the kind the data type's column takes
ValidFor(data_type, c) ==
  \/ data_type = "System.String" /\ c.t = "str"
  \/ /\ data_type \in {"System.Int16", "System.Int32"}
     /\ \/ IsInstanceInt(c)
        \/ c.t = "str" /\ c.s \in {"1"}
  \/ /\ data_type = "System.Boolean"
     /\ \/ c.t = "bool"
        \/ c.t = "str" /\ c.s \in {"yes", "on", "true", "no", "off", "false"}

\* every criterion of the entry read at position n is valid for the type
\* of its column
EntryValid(n) ==
  LET content == qs.read[n].content
      data_type == ColumnType(qs.read[n].column)
  IN \A i \in 1..Len(content.items) :
       content.items[i].t # "none" => ValidFor(data_type, content.items[i])

NonNull(items) == Cardinality({ i \in 1..Len(items) : items[i].t # "none" })

\* C6: the base query is sent only if every include and exclude criterion
\* is valid for the declared type of its column; a criterion that is not
\* valid ends the run with fail_json before any data query is sent.
C6_OnlyValidCriteriaReachTheQuery ==
  qs.used /\ (\E n \in 1..Len(qs.read) : ~EntryValid(n)) =>
    /\ ~qs.sent
    /\ outcome = "fail"
    /\ msg = "Filter criteria not valid for property with data type"

C8_OneComparisonPerValue ==
  qs.used =>
    \A n \in 1..Len(qs.things) :
      qs.read[n].content.kind = "list" =>
        /\ Len(qs.things[n].cmps) = NonNull(qs.read[n].content.items)
        /\ \A i \in 1..Len(qs.things[n].cmps) :
             qs.things[n].cmps[i].conn = IF i > 1 THEN "OR" ELSE ""

\* the rows nested in output row i under a name, none if the name is absent
NestedUnder(i, name) ==
  IF name \in DOMAIN nest.data[i].nested THEN nest.data[i].nested[name] ELSE <<>>

\* the rows of the table's own query result with the join key of base row
\* i, each restricted to the table's projected columns
ExpectedUnder(i, table) ==
  LET rows == SelectSeq(nest.results[table],
                        LAMBDA r : join_key(r) = join_key(nest.base[i]))
  IN [ n \in 1..Len(rows) |-> restrict(rows[n], projected_columns(table)) ]

\* C5: when execute returns, the output row of every base row carries,
\* under the name of every projected supplementary table, exactly the rows
\* of that table's query result with the base row's join key, restricted to
\* the table's projected columns, also with two or more such tables.
C5_RowsNestUnderTheirTable ==
  nest.used /\ outcome = "exit" =>
    \A i \in 1..Len(nest.base) : \A j \in 1..Len(nest.tables) :
      NestedUnder(i, suppl_table_name(nest.tables[j])) = ExpectedUnder(i, nest.tables[j])

\* C11: with state unmanaged or muted, a run that omits unmanage_from or
\* unmanage_until is not refused for the missing option: the window
\* defaults to now and to 24 hours from now.
C11_WindowDefaultsAreReached ==
  params.state \in {"unmanaged", "muted"} /\ ~(params.unmanage_from /\ params.unmanage_until) =>
    ~(outcome = "fail" /\ msg = "state requires unmanage_from/unmanage_until")

\* C12: when a node is added with polling_engine_id given, the EngineID
\* sent with the node (in the create of Orion.Nodes or in AddPassiveAgent)
\* is polling_engine_id.
C12_EngineIdIsPollingEngineId ==
  /\ props.set
  /\ props.polling_engine_id # 0
  /\ \E i \in 1..Len(calls) :
       calls[i] \in { Call("create", "Orion.Nodes"), Call("invoke", "AddPassiveAgent") }
  => props.EngineID = props.polling_engine_id

\* an update of the node's EngineID was sent
EngineUpdateSent ==
  \E i \in 1..Len(calls) : calls[i] = Call("update", "EngineID")

\* C13: for snmp and wmi the discovery engine is the one named by
\* discovery_polling_engine_name when that is given and differs from
\* polling_engine_name, otherwise the node's polling engine; once the node
\* is discovered the update of its EngineID is sent if and only if the
\* discovery engine id differs from the polling engine id.
C13_EngineUpdateIffEnginesDiffer ==
  props.set /\ params.polling_method \in POLLING_METHODS_USING_DISCOVERY =>
    /\ props.DiscoveryEngineID =
         IF props.discovery_polling_engine_name = "other"
           THEN props.discovery_polling_engine
           ELSE props.EngineID
    /\ EngineUpdateSent => props.DiscoveryEngineID # props.EngineID
    /\ pc = "engine_update" => props.DiscoveryEngineID # props.EngineID
    /\ pc \in {"set_caption", "set_dns"} =>
         (EngineUpdateSent <=> props.DiscoveryEngineID # props.EngineID)

\* a node discovered on another engine was moved to its polling engine
C13_Witness ==
  /\ props.set
  /\ params.polling_method \in POLLING_METHODS_USING_DISCOVERY
  /\ props.discovery_polling_engine_name = "other"
  /\ pc = "set_caption"
  /\ node.found
  /\ EngineUpdateSent

\* the deletes state absent owes: the agent's, then the node's
AbsentDeletes ==
  (IF agent.found THEN << Call("delete", "agent") >> ELSE << >>)
    \o (IF node.found THEN << Call("delete", "node") >> ELSE << >>)

\* C14: with state absent and check mode off, a run deletes every existing
\* record, the agent before the node, and reports changed; when neither
\* exists it issues no delete and reports no change with the message that
\* the node does not exist.
C14_AbsentDeletesWhatExists ==
  params.state = "absent" /\ ~params.check_mode /\ pc # "args" =>
    /\ Len(calls) <= Len(AbsentDeletes)
    /\ \A i \in 1..Len(calls) : calls[i] = AbsentDeletes[i]
    /\ outcome = "exit" =>
         /\ calls = AbsentDeletes
         /\ changed = (node.found \/ agent.found)
         /\ ~changed => msg = "Node does not exist"

\* a run that removed an agent and its node
C14_Witness ==
  /\ params.state = "absent"
  /\ ~params.check_mode
  /\ outcome = "exit"
  /\ changed
  /\ calls = << Call("delete", "agent"), Call("delete", "node") >>

\* the node exists and is not an agent node, or is an agent node whose
\* agent record exists and is connected
NodeIsInPlace ==
  /\ node.found
  /\ \/ node.object_sub_type # "AGENT"
     \/ node.object_sub_type = "AGENT" /\ agent.found
          /\ agent.connection_status = ORION_CONN_STATUS_CONNECTED

\* C15: with state present, main returns the existing node data without a
\* mutating call exactly when the node is in place; in every other case,
\* check mode off, it takes the add path.
C15_PresentDoesNothingIffNodeIsInPlace ==
  [][ pc = "dispatch" /\ params.state = "present" =>
        IF NodeIsInPlace
          THEN /\ outcome' = "exit"
               /\ msg' = "node data"
               /\ ~changed'
               /\ calls' = << >>
          ELSE ~params.check_mode =>
                 /\ outcome' = "running"
                 /\ pc' \in {"present_remove_agent", "validate_fields"} ]_vars

\* a connected agent node was left as it is
C15_Witness ==
  /\ params.state = "present"
  /\ node.found
  /\ node.object_sub_type = "AGENT"
  /\ agent.found
  /\ agent.connection_status = ORION_CONN_STATUS_CONNECTED
  /\ outcome = "exit"
  /\ msg = "node data"
  /\ calls = << >>

\* ===========================================================================
\* Properties of SolarWindsQuery.relations

\* Metadata.Relationship holds a row that links the table with the base
\* table, in either direction
Linked(t) ==
  \E r \in meta.rows :
    \/ r.SourceType = meta.base_table /\ r.TargetType = t
    \/ r.SourceType = t /\ r.TargetType = meta.base_table

\* C16: relations() returns a relationship for every supplementary table
\* that a row of Metadata.Relationship links with the base table, whichever
\* of the two is the SourceType; it fails with "No relationship found" only
\* if some supplementary table has no such row.
C16_RelationsInEitherDirection ==
  meta.used =>
    /\ outcome = "fail" /\ msg = "Failed to retrieve table relationships: No relationship found" =>
         \E n \in 1..Len(meta.suppl_tables) : ~Linked(meta.suppl_tables[n])
    /\ pc = "relations_done" =>
         \A n \in 1..Len(meta.suppl_tables) :
           LET t == meta.suppl_tables[n] IN
             /\ t \in DOMAIN meta.relations
             /\ { meta.relations[t].SourceType, meta.relations[t].TargetType }
                  = { meta.base_table, t }

\* ===========================================================================
\* Properties of the setters of SolarWindsQuery and of properties()

DictKeys(d) == { d[n].k : n \in 1..Len(d) }
DictEntries(d) == { d[n] : n \in 1..Len(d) }

\* the name a table name given on input stands for: the entity of the alias
\* it spells in some letter case, itself if it spells none
Aliased(name) ==
  IF \E a \in DOMAIN SolarWindsEntityAlias : name_lower(a) = name_lower(name)
    THEN SolarWindsEntityAlias[CHOOSE a \in DOMAIN SolarWindsEntityAlias :
                                 name_lower(a) = name_lower(name)]
    ELSE name

\* the table keys of a dict given on input have been replaced by the names
\* they stand for, each holding what one of its keys was given
TablesAliased(input, stored) ==
  /\ DictKeys(stored) = { Aliased(k) : k \in DictKeys(input) }
  /\ \A s \in DictEntries(stored) :
       \E i \in DictEntries(input) : Aliased(i.k) = s.k /\ i.v = s.v

\* the real cased name is the column's name in Metadata.Property
RealCased(table, name, column) ==
  /\ name \in MetadataProperty[table]
  /\ name_lower(name) = name_lower(column)

\* include and exclude after properties(): under each real table name, the
\* columns given under one of the table's keys, by their real cased names,
\* each with the criterion given for it
FiltersRealCased(stored, real) ==
  /\ { name_lower(k) : k \in DictKeys(real) }
       = { name_lower(s.k) : s \in { e \in DictEntries(stored) : ~e.v.none } }
  /\ \A r \in DictEntries(real) :
       /\ r.k \in DOMAIN MetadataProperty
       /\ \E s \in DictEntries(stored) :
            /\ name_lower(s.k) = name_lower(r.k) /\ ~s.v.none
            /\ \A c \in DictEntries(s.v.items) :
                 \E f \in DictEntries(r.v) : RealCased(r.k, f.k, c.k)
            /\ \A f \in DictEntries(r.v) :
                 /\ \E c \in DictEntries(s.v.items) : RealCased(r.k, f.k, c.k)
                 /\ RealCased(r.k, f.k, f.v)

\* columns after properties(): under each real table name, the real cased
\* names of the columns listed under one of the table's keys, in their order
ColumnsRealCased(stored, real) ==
  /\ { name_lower(k) : k \in DictKeys(real) } = { name_lower(k) : k \in DictKeys(stored) }
  /\ \A r \in DictEntries(real) :
       /\ r.k \in DOMAIN MetadataProperty
       /\ \E s \in DictEntries(stored) :
            /\ name_lower(s.k) = name_lower(r.k)
            /\ s.v.none => { r.v[n] : n \in 1..Len(r.v) } = MetadataProperty[r.k]
            /\ ~s.v.none =>
                 /\ Len(r.v) = Len(s.v.items)
                 /\ \A n \in 1..Len(r.v) : RealCased(r.k, r.v[n], s.v.items[n].k)

\* C17: once the setters have run, base_table and every table key of include,
\* exclude and columns that spells an alias of SolarWindsEntityAlias in any
\* letter case has been replaced by the aliased entity name, and a name that
\* spells no alias is kept unchanged; once properties() has returned, the
\* column names of include, exclude and columns, given in any letter case,
\* have been replaced by the real cased names of Metadata.Property.
C17_AliasesAndColumnCaseResolved ==
  /\ meta.used /\ pc # "set_inputs" =>
       /\ meta.base_table = Aliased(meta.input.base_table)
       /\ TablesAliased(meta.input.include, meta.input_include)
       /\ TablesAliased(meta.input.exclude, meta.input_exclude)
       /\ TablesAliased(meta.input.columns, meta.input_columns)
  /\ meta.used /\ pc = "properties_done" =>
       /\ FiltersRealCased(meta.input_include, meta.include)
       /\ FiltersRealCased(meta.input_exclude, meta.exclude)
       /\ ColumnsRealCased(meta.input_columns, meta.columns)

\* properties() has returned for a base table given as "nodes", an include
\* under the alias "NODES" naming the column "caption", and columns under
\* "orion.nodes", which is no alias
C17_Witness ==
  /\ meta.used /\ pc = "properties_done"
  /\ meta.input.base_table = "nodes" /\ meta.base_table = "Orion.Nodes"
  /\ \E i \in DictEntries(meta.input.include) :
       /\ i.k = "NODES" /\ ~i.v.none
       /\ "caption" \in DictKeys(i.v.items)
  /\ \E r \in DictEntries(meta.include) :
       r.k = "Orion.Nodes" /\ "Caption" \in DictKeys(r.v)
  /\ "orion.nodes" \in DictKeys(meta.input.columns)
  /\ "orion.nodes" \in DictKeys(meta.input_columns)
  /\ "Orion.Nodes" \in DictKeys(meta.columns)

\* ===========================================================================
\* Properties of column_filters on integer columns

\* a string made only of decimal digits
IsDigits(c) ==
  /\ c.t = "str"
  /\ Chars(c.s) # << >>
  /\ \A i \in 1..Len(Chars(c.s)) :
       Chars(c.s)[i] \in { "0", "1", "2", "3", "4", "5", "6", "7", "8", "9" }

\* C18: for a column whose declared type is System.Int16 or System.Int32,
\* column_filters accepts a criterion that is an integer or a string made
\* only of decimal digits, producing an '=' comparison with it, and returns
\* False for every other criterion, which ends the run. Stated for an entry
\* whose content is one integer or one string.
C18_IntegerColumnCriteria ==
  qs.used =>
    \A n \in 1..Len(qs.read) :
      LET e == qs.read[n]
          c == e.content.items[1]
      IN /\ ColumnType(e.column) \in { "System.Int16", "System.Int32" }
         /\ e.content.kind = "scalar"
         /\ c.t \in { "int", "str" }
         => IF c.t = "int" \/ IsDigits(c)
              THEN /\ n <= Len(qs.things)
                   /\ qs.things[n].cmps =
                        << [ conn |-> "", column |-> e.column, op |-> "=",
                             val |-> [ quoted |-> FALSE, c |-> c ] ] >>
              ELSE /\ Len(qs.things) < n
                   /\ outcome = "fail"
                   /\ msg = "Filter criteria not valid for property with data type"

====
